---- MODULE Spec2Model ----
(***************************************************************************)
(* Model of the repository-to-PDF pipeline's document stage:               *)
(*   getRepoFiles (src/unnamed/part_000), the fetch of the text files of   *)
(*     the repository tree, each of which may fail on its own,             *)
(*   formatRepoForPdf (src/services/gemini.ts), the sort that orders the   *)
(*     highlighted files by their table-of-contents index, and             *)
(*   generateRepoPdf (src/services/pdf.ts), the single forward pass that   *)
(*     lays the title, the table of contents and every file's coloured     *)
(*     tokens onto pages.                                                  *)
(*                                                                         *)
(* Lengths are integers in micrometres: jsPDF's default unit is the        *)
(* millimetre and LINE_HEIGHT = fontSize * 0.5 * lineSpacing has up to     *)
(* three decimals (9 * 0.5 * 1.15 = 5.175), so 1 mm = 1000 units.          *)
(* lineSpacing is kept in hundredths (1.15 is 115).                        *)
(*                                                                         *)
(* The renderer is one synchronous function; the model steps it block by   *)
(* block (setup, title, TOC heading, TOC entry, file separator, line,      *)
(* token, end of line) with pc naming the block that comes next.  The content of a    *)
(* file is read when the pass reaches it: the number of lines at the       *)
(* separator, each line when its forEach callback starts.                  *)
(***************************************************************************)
EXTENDS Integers, Sequences, FiniteSets, TLC

VARIABLES
    textFiles,         \* paths of the tree's text files (part_000:50-54)
    validFiles,        \* paths of the files getRepoFiles returns (part_000:83)
    tableOfContents,   \* structureData.tableOfContents: sequence of paths
    highlightedFiles,  \* the highlighted files in arrival order (gemini.ts:165-169)
    files,             \* data.files handed to generateRepoPdf (sorted)
    theme,             \* options.theme
    fontSize,          \* options.fontSize
    lineSpacing,       \* options.lineSpacing, in hundredths
    titleLines,        \* doc.splitTextToSize(data.title, contentWidth).length
    pc,                \* the block the pass emits next
    page,              \* number of the current page (doc.addPage adds one)
    y,                 \* vertical cursor
    x,                 \* horizontal cursor of the current line
    ti,                \* TOC entries emitted so far
    fi,                \* file sections started so far
    nLines,            \* file.lines.length of the current file
    li,                \* lines of the current file finished so far
    line,              \* line.tokens of the line being laid out
    tk,                \* tokens of the current line placed so far
    out,               \* the runs emitted by the latest step (doc.text calls)
    lineRuns,          \* the runs emitted for the current line, in order
    sections,          \* the files whose separator was emitted, in order
    chk,               \* the checkNewPage calls of the latest step, in order
    lineY0,            \* y at which the latest line's first token was placed
    wraps,             \* wraps of the latest line so far
    lineBroke,         \* a page break happened while the latest line was laid out
    pendingBreak,      \* a page break happened since the latest token run
    fills,             \* the pages that received the background rectangle
    isLoading,         \* App state isLoading (App.tsx:320)
    progress,          \* App state progress: <<>> for null, else one record
    error,             \* App state error: "null" or the title of the AppError
    pdfBlob,           \* App state pdfBlob: "null" or "blob"
    repoName,          \* App state repoName: "null" or "repo"
    pending,           \* indices of the per-file requests still in flight
    settled,           \* per file, in input order: "pending", "ok" or "null"
    completed,         \* indices of the settled requests, in completion order
    processedCount,    \* processedCount of the function in progress
    reports,           \* fileProgress.current of its onProgress calls, in order
    step               \* the latest step taken

vars == <<textFiles, validFiles, tableOfContents, highlightedFiles, files, theme, fontSize, lineSpacing,
          titleLines, pc, page, y, x, ti, fi, nLines, li, line, tk, out,
          lineRuns, sections, chk, lineY0, wraps, lineBroke, pendingBreak, fills,
          isLoading, progress, error, pdfBlob, repoName, pending, settled,
          completed, processedCount, reports, step>>

\* the state of App and of the requests in flight, which the renderer
\* leaves alone
app == <<isLoading, progress, error, pdfBlob, repoName, pending, settled,
         completed, processedCount, reports>>

input == <<textFiles, validFiles, tableOfContents, highlightedFiles, theme,
           fontSize, lineSpacing, titleLines, app>>

(***************************************************************************)
(* Bounds of the model.                                                    *)
(***************************************************************************)
MaxToc == 2
MaxFiles == 3
MaxLines == 2
MaxTokens == 2

(***************************************************************************)
(* Constants of pdf.ts.                                                    *)
(***************************************************************************)
MARGIN == 15000
pageHeight == 297000
pageWidth == 210000
contentWidth == pageWidth - MARGIN * 2

\* Colour strings are sequences of characters, so that the regular
\* expression of pdf.ts:105 and the comparisons of pdf.ts:97-99 are computed.
DARK_MODE_TEXT == <<"#", "E", "2", "E", "8", "F", "0">>
LIGHT_MODE_TEXT == <<"#", "0", "0", "0", "0", "0", "0">>

isDarkMode == theme = "dark"
LINE_HEIGHT == fontSize * 5 * lineSpacing
defaultTextColor == IF isDarkMode THEN DARK_MODE_TEXT ELSE LIGHT_MODE_TEXT

(***************************************************************************)
(* Colour strings of the model.                                            *)
(***************************************************************************)
HexBlack == <<"#", "0", "0", "0", "0", "0", "0">>
HexWhite == <<"#", "F", "F", "F", "F", "F", "F">>
HexWhiteLower == <<"#", "f", "f", "f", "f", "f", "f">>
NameBlack == <<"b", "l", "a", "c", "k">>
NameWhite == <<"w", "h", "i", "t", "e">>
Fuchsia == <<"f", "u", "c", "h", "s", "i", "a">>
Purple == <<"#", "8", "0", "0", "0", "8", "0">>
Blue == <<"#", "0", "0", "0", "0", "F", "F">>
Chocolate == <<"#", "d", "2", "6", "9", "1", "e">>
ShortHex == <<"#", "F", "F", "F">>
LongHex == <<"#", "8", "0", "0", "0", "8", "0", "0">>
NotHex == <<"#", "G", "0", "0", "0", "0", "0">>
NoHash == <<"8", "0", "0", "0", "8", "0", "0">>
EmptyColor == <<>>

Colors == {HexBlack, HexWhite, HexWhiteLower, NameBlack, NameWhite, Fuchsia,
           Purple, Chocolate, ShortHex, LongHex, NotHex, NoHash, EmptyColor,
           DARK_MODE_TEXT}

HexDigits == {"0", "1", "2", "3", "4", "5", "6", "7", "8", "9",
              "A", "B", "C", "D", "E", "F", "a", "b", "c", "d", "e", "f"}

\* /^#[0-9A-F]{6}$/i.test(color)
IsHexColor(color) ==
    /\ Len(color) = 7
    /\ color[1] = "#"
    /\ \A i \in 2..7 : color[i] \in HexDigits

\* Mutant of AdjustForTheme: black and white are remapped to the name of
\* the opposite colour, which is not a hex colour.
AdjustForThemeToName(color) ==
    IF isDarkMode /\ (color = HexBlack \/ color = NameBlack)
    THEN NameWhite
    ELSE IF ~isDarkMode /\ (color = HexWhite \/ color = NameWhite)
         THEN NameBlack
         ELSE color

\* pdf.ts:95-102: the theme adjustment of black and white.
AdjustForTheme(color) ==
    IF isDarkMode /\ (color = HexBlack \/ color = NameBlack)
    THEN DARK_MODE_TEXT
    ELSE IF ~isDarkMode /\ (color = HexWhite \/ color = NameWhite)
         THEN LIGHT_MODE_TEXT
         ELSE color

\* Mutant of ValidateColor: the hex check is left out.
ValidateColorSkipped(color) == color

\* pdf.ts:105: the hex check, applied to the adjusted colour.
ValidateColor(color) == IF IsHexColor(color) THEN color ELSE defaultTextColor

\* The colour handed to doc.setTextColor for a token (pdf.ts:95-106).
TokenColor(color) == ValidateColor(AdjustForTheme(color))

(***************************************************************************)
(* Text metrics.  jsPDF measures and wraps text; the model's strings are   *)
(* atoms and these tables are the measurements of the atoms.               *)
(***************************************************************************)
Paths == {"a.ts", "b.ts", "deep/long.ts"}

\* doc.splitTextToSize(path, contentWidth).length at the body font
PathLines(path) == IF path = "deep/long.ts" THEN 4 ELSE 1

\* doc.splitTextToSize(`File: ${path} (${language})`, contentWidth).length at 12pt bold
SeparatorLines(path) == IF path = "deep/long.ts" THEN 6 ELSE 1

Texts == {"", "half", "half+", "full", "full+"}

\* doc.getTextWidth(token.text): "full" is exactly contentWidth wide, "half"
\* half of it, and the "+" texts are one unit wider.  "const", " " and "a"
\* have their widths in 9pt Courier, 0.6 em a character (1.905 mm).
getTextWidth(text) ==
    CASE text = "" -> 0
      [] text = "const" -> 9525
      [] text = " " -> 1905
      [] text = "a" -> 1905
      [] text = "half" -> contentWidth \div 2
      [] text = "half+" -> contentWidth \div 2 + 1
      [] text = "full" -> contentWidth
      [] text = "full+" -> contentWidth + 1

\* doc.text(lines, x, y) with an array of lines puts line i (from 0) at
\* y + i * leading, the leading being size pt * lineHeightFactor 1.15, and
\* 1 pt = 25.4 / 72 mm.
TextLeading(size) == (size * 115 * 254) \div 72

(***************************************************************************)
(* formatRepoForPdf: the sort of gemini.ts:176-180.                        *)
(***************************************************************************)
\* Array.prototype.indexOf: the first index (from 0), or -1.
indexOf(seq, e) ==
    IF \E i \in 1..Len(seq) : seq[i] = e
    THEN (CHOOSE i \in 1..Len(seq) : seq[i] = e /\ \A j \in 1..(i - 1) : seq[j] # e) - 1
    ELSE 0 - 1

\* Mutant of compareFiles: the operands of the subtraction are swapped.
compareFilesSwapped(a, b) ==
    indexOf(tableOfContents, b.path) - indexOf(tableOfContents, a.path)

\* the comparator of gemini.ts:176-180
compareFiles(a, b) ==
    indexOf(tableOfContents, a.path) - indexOf(tableOfContents, b.path)

\* Array.prototype.sort is stable: an element goes after every element that
\* does not compare greater than it.
InsertFile(sorted, f) ==
    LET before == {i \in 1..Len(sorted) : compareFiles(sorted[i], f) <= 0}
        k == IF before = {} THEN 0
             ELSE CHOOSE i \in before : \A j \in before : j <= i
    IN  SubSeq(sorted, 1, k) \o <<f>> \o SubSeq(sorted, k + 1, Len(sorted))

RECURSIVE SortFiles(_)
SortFiles(s) ==
    IF s = <<>> THEN <<>>
    ELSE InsertFile(SortFiles(SubSeq(s, 1, Len(s) - 1)), s[Len(s)])

(***************************************************************************)
(* generateRepoPdf.                                                        *)
(***************************************************************************)
\* Mutant of checkNewPage: the height is compared with the page's edge, not
\* with its bottom margin.
checkNewPageToPageEdge(yy, neededHeight) ==
    IF yy + neededHeight > pageHeight
    THEN [y0 |-> yy, h |-> neededHeight, brk |-> TRUE, y1 |-> MARGIN]
    ELSE [y0 |-> yy, h |-> neededHeight, brk |-> FALSE, y1 |-> yy]

\* Mutant of checkNewPage: the page is added and y is left where it was.
checkNewPageKeepsY(yy, neededHeight) ==
    IF yy + neededHeight > pageHeight - MARGIN
    THEN [y0 |-> yy, h |-> neededHeight, brk |-> TRUE, y1 |-> yy]
    ELSE [y0 |-> yy, h |-> neededHeight, brk |-> FALSE, y1 |-> yy]

\* Mutant of checkNewPage: the needed height is left out of the comparison.
checkNewPageIgnoringHeight(yy, neededHeight) ==
    IF yy > pageHeight - MARGIN
    THEN [y0 |-> yy, h |-> neededHeight, brk |-> TRUE, y1 |-> MARGIN]
    ELSE [y0 |-> yy, h |-> neededHeight, brk |-> FALSE, y1 |-> yy]

\* checkNewPage(neededHeight) called with the cursor at yy (pdf.ts:30-36):
\* brk says whether doc.addPage ran, y1 is y after the call.
checkNewPage(yy, neededHeight) ==
    IF yy + neededHeight > pageHeight - MARGIN
    THEN [y0 |-> yy, h |-> neededHeight, brk |-> TRUE, y1 |-> MARGIN]
    ELSE [y0 |-> yy, h |-> neededHeight, brk |-> FALSE, y1 |-> yy]

\* A doc.text call: n lines of text starting at (xx, yy) on page pg, line i
\* at yy + i * leading.
Run(kind, pg, xx, yy, n, leading, text, color) ==
    [kind |-> kind, page |-> pg, x |-> xx, y |-> yy, n |-> n,
     leading |-> leading, text |-> text, color |-> color]

Pages(c) == IF c.brk THEN 1 ELSE 0

\* Mutant of addPageBackground: the rectangle is drawn under either theme.
addPageBackgroundUnthemed(pg) == {pg}

\* pdf.ts:23-28: addPageBackground() with pg the current page: the pages
\* it fills.
addPageBackground(pg) == IF isDarkMode THEN {pg} ELSE {}

\* pdf.ts:32-33: the fills after the checkNewPage call c, whose new page
\* is filled as soon as it is added.
FillsAfter(c) == IF c.brk THEN fills \cup addPageBackground(page + 1) ELSE fills

\* Mutant of AfterFile: the forEach enters its callback once more than
\* there are files.
AfterFileOnceMore(started) == IF started <= Len(files) THEN "file" ELSE "done"

\* the block after the current file's last line, or after an empty file
AfterFile(started) == IF started < Len(files) THEN "file" ELSE "done"

\* What a step that lays out no token leaves of the per-line bookkeeping.
ClearLine ==
    /\ line' = <<>>
    /\ tk' = 0
    /\ lineRuns' = <<>>
    /\ lineY0' = 0
    /\ wraps' = 0
    /\ lineBroke' = FALSE

\* the highlighted files with the given paths: id is the arrival position,
\* the identity of the file object
FilesOf(paths) == [i \in 1..Len(paths) |-> [path |-> paths[i], id |-> i]]

\* the elements of s whose index is in ok, in the order of s: what
\* settled.filter(r => r !== null) keeps when the promises of ok succeed
RECURSIVE Keep(_, _)
Keep(s, ok) ==
    IF s = <<>> THEN <<>>
    ELSE LET init == Keep(SubSeq(s, 1, Len(s) - 1), ok)
         IN  IF Len(s) \in ok THEN Append(init, s[Len(s)]) ELSE init

\* the renderer's variables, which the stages before it leave alone
render == <<files, page, y, x, ti, fi, nLines, li, line, tk, out, lineRuns,
            sections, chk, lineY0, wraps, lineBroke, pendingBreak, fills>>

\* part_000:42-86: getRepoFiles, the blob fetches of the files in ok
\* succeeding and the others failing.
GetRepoFiles(ok) ==
    /\ step' = "GetRepoFiles"
    /\ pc = "fetch"
    /\ ok \subseteq 1..Len(textFiles)
    /\ IF Len(textFiles) = 0
       THEN /\ pc' = "failed"
            /\ validFiles' = validFiles
       ELSE /\ pc' = "highlight"
            /\ validFiles' = Keep(textFiles, ok)
    /\ UNCHANGED <<textFiles, tableOfContents, highlightedFiles, theme, fontSize,
                   lineSpacing, titleLines, render, app>>

\* gemini.ts:102-173: the structure call, whose answer parses or not, and
\* the highlight calls, those of the files in ok succeeding; the throw
\* when files were given and none was highlighted.
HighlightFiles(structureParses, ok) ==
    /\ step' = "HighlightFiles"
    /\ pc = "highlight"
    /\ ok \subseteq 1..Len(validFiles)
    /\ LET highlighted == FilesOf(Keep(validFiles, ok))
       IN  IF ~structureParses
           THEN /\ pc' = "failed"
                /\ highlightedFiles' = highlightedFiles
           ELSE /\ highlightedFiles' = highlighted
                /\ pc' = IF Len(highlighted) = 0 /\ Len(validFiles) > 0
                         THEN "failed"
                         ELSE "format"
    /\ UNCHANGED <<textFiles, validFiles, tableOfContents, theme, fontSize,
                   lineSpacing, titleLines, render, app>>

\* gemini.ts:175-186: sort the highlighted files and hand the document over.
Format ==
    /\ step' = "Format"
    /\ pc = "format"
    /\ files' = SortFiles(highlightedFiles)
    /\ pc' = "setup"
    /\ out' = <<>>
    /\ chk' = <<>>
    /\ UNCHANGED <<input, page, y, x, ti, fi, nLines, li, line, tk, lineRuns,
                   sections, lineY0, wraps, lineBroke, pendingBreak, fills>>

\* pdf.ts:10-40: the document with its first page, the cursor at the top
\* margin and the background of the first page.
Setup ==
    /\ step' = "Setup"
    /\ pc = "setup"
    /\ page' = 1
    /\ y' = MARGIN
    /\ fills' = fills \cup addPageBackground(1)
    /\ pc' = "title"
    /\ out' = <<>>
    /\ chk' = <<>>
    /\ UNCHANGED <<input, files, x, ti, fi, nLines, li, line, tk, lineRuns,
                   sections, lineY0, wraps, lineBroke, pendingBreak>>

\* pdf.ts:42-50: the title block.
Title ==
    /\ step' = "Title"
    /\ pc = "title"
    /\ LET c == checkNewPage(y, titleLines * 12000)
       IN  /\ chk' = <<c>>
           /\ fills' = FillsAfter(c)
           /\ page' = page + Pages(c)
           /\ out' = <<Run("title", page + Pages(c), MARGIN, c.y1, titleLines,
                           TextLeading(24), "title", defaultTextColor)>>
           /\ y' = c.y1 + titleLines * 12000 + 10000
           /\ pendingBreak' = (pendingBreak \/ c.brk)
    /\ pc' = "tocHead"
    /\ UNCHANGED <<input, files, x, ti, fi, nLines, li, line, tk, lineRuns,
                   sections, lineY0, wraps, lineBroke>>

\* pdf.ts:52-60: the "Table of Contents" heading.
TocHeading ==
    /\ step' = "TocHeading"
    /\ pc = "tocHead"
    /\ LET c == checkNewPage(y, 20000)
       IN  /\ chk' = <<c>>
           /\ fills' = FillsAfter(c)
           /\ page' = page + Pages(c)
           /\ out' = <<Run("tocHead", page + Pages(c), MARGIN, c.y1, 1,
                           TextLeading(16), "Table of Contents", defaultTextColor)>>
           /\ y' = c.y1 + 8000
           /\ pendingBreak' = (pendingBreak \/ c.brk)
    /\ pc' = IF Len(tableOfContents) > 0 THEN "toc" ELSE AfterFile(0)
    /\ UNCHANGED <<input, files, x, ti, fi, nLines, li, line, tk, lineRuns,
                   sections, lineY0, wraps, lineBroke>>

\* Mutant of NextTocEntry: the table of contents is walked from its end.
NextTocEntryReversed(toc, done) == toc[Len(toc) - done]

\* pdf.ts:61: for (const path of data.tableOfContents), the entry that
\* follows the first `done` ones.
NextTocEntry(toc, done) == toc[done + 1]

\* pdf.ts:61-66: one entry of the table of contents.
TocEntry ==
    /\ step' = "TocEntry"
    /\ pc = "toc"
    /\ LET path == NextTocEntry(tableOfContents, ti)
           n == PathLines(path)
           c == checkNewPage(y, n * LINE_HEIGHT)
       IN  /\ chk' = <<c>>
           /\ fills' = FillsAfter(c)
           /\ page' = page + Pages(c)
           /\ out' = <<Run("toc", page + Pages(c), MARGIN, c.y1, n,
                           TextLeading(fontSize), path, defaultTextColor)>>
           /\ y' = c.y1 + n * LINE_HEIGHT
           /\ pendingBreak' = (pendingBreak \/ c.brk)
    /\ ti' = ti + 1
    /\ pc' = IF ti + 1 < Len(tableOfContents) THEN "toc" ELSE AfterFile(0)
    /\ UNCHANGED <<input, files, x, fi, nLines, li, line, tk, lineRuns,
                   sections, lineY0, wraps, lineBroke>>

\* pdf.ts:69-83: the gap and the separator of the next file, whose
\* lines array has n elements.
FileSeparator(n) ==
    /\ step' = "FileSeparator"
    /\ pc = "file"
    /\ LET file == files[fi + 1]
           c == checkNewPage(y + 10000, 20000)
           sep == SeparatorLines(file.path)
       IN  /\ chk' = <<c>>
           /\ fills' = FillsAfter(c)
           /\ page' = page + Pages(c)
           /\ out' = <<Run("separator", page + Pages(c), MARGIN, c.y1, sep,
                           TextLeading(12), file.path, defaultTextColor)>>
           /\ y' = c.y1 + sep * 6000 + 4000
           /\ pendingBreak' = (pendingBreak \/ c.brk)
           /\ sections' = Append(sections, file)
    /\ fi' = fi + 1
    /\ nLines' = n
    /\ li' = 0
    /\ pc' = IF n > 0 THEN "line" ELSE AfterFile(fi + 1)
    /\ ClearLine
    /\ UNCHANGED <<input, files, x, ti>>

\* Mutant of AfterBlankLine: the blank line returns without advancing.
AfterBlankLineNoAdvance(yy) == yy

\* pdf.ts:90: y after a line without tokens.
AfterBlankLine(yy) == yy + LINE_HEIGHT

\* pdf.ts:85-92: a line without tokens.
BlankLine ==
    /\ step' = "BlankLine"
    /\ pc = "line"
    /\ LET c == checkNewPage(y, LINE_HEIGHT)
       IN  /\ chk' = <<c>>
           /\ fills' = FillsAfter(c)
           /\ page' = page + Pages(c)
           /\ y' = AfterBlankLine(c.y1)
           /\ pendingBreak' = (pendingBreak \/ c.brk)
    /\ x' = MARGIN
    /\ out' = <<>>
    /\ li' = li + 1
    /\ pc' = IF li + 1 < nLines THEN "line" ELSE AfterFile(fi)
    /\ ClearLine
    /\ UNCHANGED <<input, files, ti, fi, nLines, sections>>

\* pdf.ts:85-87: the start of a line with tokens l.
LineStart(l) ==
    /\ step' = "LineStart"
    /\ pc = "line"
    /\ Len(l) > 0
    /\ LET c == checkNewPage(y, LINE_HEIGHT)
       IN  /\ chk' = <<c>>
           /\ fills' = FillsAfter(c)
           /\ page' = page + Pages(c)
           /\ y' = c.y1
           /\ pendingBreak' = (pendingBreak \/ c.brk)
    /\ x' = MARGIN
    /\ lineY0' = 0
    /\ line' = l
    /\ tk' = 0
    /\ out' = <<>>
    /\ lineRuns' = <<>>
    /\ wraps' = 0
    /\ lineBroke' = FALSE
    /\ pc' = "token"
    /\ UNCHANGED <<input, files, ti, fi, nLines, li, sections>>

\* Mutant of MustWrap: every token after the first of a row wraps.
MustWrapAlways(xx, tokenWidth) == xx > MARGIN

\* Mutant of MustWrap: a token that exactly fits wraps too.
MustWrapNonStrict(xx, tokenWidth) == xx > MARGIN /\ xx + tokenWidth >= pageWidth - MARGIN

\* Mutant of MustWrap: the test that the row already holds a token is left out.
MustWrapAtMargin(xx, tokenWidth) == xx + tokenWidth > pageWidth - MARGIN

\* pdf.ts:108-114: the token wraps to a new visual row.
MustWrap(xx, tokenWidth) == xx > MARGIN /\ xx + tokenWidth > pageWidth - MARGIN

\* Mutant of TokenRuns: a token wider than the content width is broken in
\* two pieces, the second one row further down.
TokenRunsSplit(token, pg, xx, yy, color) ==
    IF getTextWidth(token.text) > contentWidth
    THEN <<Run("token", pg, xx, yy, 1, 0, "head", color),
           Run("token", pg, MARGIN, yy + LINE_HEIGHT, 1, 0, "tail", color)>>
    ELSE <<Run("token", pg, xx, yy, 1, 0, token.text, color)>>

\* pdf.ts:116: doc.text(token.text, x, y), one run with the whole text.
TokenRuns(token, pg, xx, yy, color) ==
    <<Run("token", pg, xx, yy, 1, 0, token.text, color)>>

\* pdf.ts:94-118: one token of the current line.
PlaceToken ==
    /\ step' = "PlaceToken"
    /\ pc = "token"
    /\ LET token == line[tk + 1]
           color == TokenColor(token.color)
           tokenWidth == getTextWidth(token.text)
           wrap == MustWrap(x, tokenWidth)
           c == checkNewPage(y + LINE_HEIGHT, LINE_HEIGHT)
           y2 == IF wrap THEN c.y1 ELSE y
           x2 == IF wrap THEN MARGIN ELSE x
           page2 == IF wrap THEN page + Pages(c) ELSE page
           runs == TokenRuns(token, page2, x2, y2, color)
       IN  /\ chk' = IF wrap THEN <<c>> ELSE <<>>
           /\ fills' = IF wrap THEN FillsAfter(c) ELSE fills
           /\ page' = page2
           /\ y' = y2
           /\ out' = runs
           /\ lineRuns' = lineRuns \o runs
           /\ x' = x2 + tokenWidth
           /\ wraps' = IF wrap THEN wraps + 1 ELSE wraps
           /\ lineBroke' = (lineBroke \/ (wrap /\ c.brk))
           /\ lineY0' = IF tk = 0 THEN y2 ELSE lineY0
           /\ pendingBreak' = FALSE
    /\ tk' = tk + 1
    /\ pc' = IF tk + 1 < Len(line) THEN "token" ELSE "lineEnd"
    /\ UNCHANGED <<input, files, ti, fi, nLines, li, line, sections>>

\* Mutant of AfterLine: no advance after the last token.
AfterLineNoAdvance(yy) == yy

\* pdf.ts:119: y after the last token of a line.
AfterLine(yy) == yy + LINE_HEIGHT

\* pdf.ts:119: the advance after the last token of a line.
LineEnd ==
    /\ step' = "LineEnd"
    /\ pc = "lineEnd"
    /\ y' = AfterLine(y)
    /\ li' = li + 1
    /\ out' = <<>>
    /\ chk' = <<>>
    /\ pc' = IF li + 1 < nLines THEN "line" ELSE AfterFile(fi)
    /\ line' = <<>>
    /\ tk' = 0
    /\ lineRuns' = <<>>
    /\ UNCHANGED <<input, files, page, x, ti, fi, nLines, sections, lineY0,
                   wraps, lineBroke, pendingBreak, fills>>

(***************************************************************************)
(* Inputs and specifications.                                              *)
(***************************************************************************)
\* the sequences over S of length at most n
RECURSIVE SeqsUpTo(_, _)
SeqsUpTo(S, n) ==
    IF n = 0 THEN {<<>>}
    ELSE LET shorter == SeqsUpTo(S, n - 1)
         IN  shorter \cup {Append(s, e) : s \in {t \in shorter : Len(t) = n - 1}, e \in S}

\* (fontSize, lineSpacing) of the option selects of App.tsx:113-135
Options == {<<9, 115>>, <<10, 150>>}

\* wrapped line counts of the title: a short title, one that leaves the
\* page nearly full, one taller than what checkNewPage allows on a page, one taller than a page
TitleLineCounts == {1, 18, 23, 29}

Tokens(texts, colors) == [text : texts, color : colors]

\* the renderer's state before it runs
RenderStart ==
    /\ files = <<>>
    /\ page = 1
    /\ y = MARGIN
    /\ x = MARGIN
    /\ ti = 0
    /\ fi = 0
    /\ nLines = 0
    /\ li = 0
    /\ line = <<>>
    /\ tk = 0
    /\ out = <<>>
    /\ lineRuns = <<>>
    /\ sections = <<>>
    /\ chk = <<>>
    /\ lineY0 = 0
    /\ wraps = 0
    /\ lineBroke = FALSE
    /\ pendingBreak = FALSE
    /\ fills = {}
    /\ step = "Init"

\* a ProgressState (App.tsx:171-176) without its text
Progress(stepIndex, fileCurrent, fileTotal) ==
    <<[stepIndex |-> stepIndex, fileCurrent |-> fileCurrent, fileTotal |-> fileTotal]>>

\* App while handleSubmit is at step stepIndex, n requests of the function
\* in progress settled in input order (App.tsx:342-400)
AppRunning(stepIndex, n) ==
    /\ isLoading = TRUE
    /\ progress = Progress(stepIndex, n, n)
    /\ error = "null"
    /\ pdfBlob = "null"
    /\ repoName = "repo"
    /\ pending = {}
    /\ settled = [i \in 1..n |-> "ok"]
    /\ completed = [i \in 1..n |-> i]
    /\ processedCount = n
    /\ reports = [i \in 1..n + 1 |-> i - 1]

\* formatRepoForPdf after its highlight promises settled (gemini.ts:163-173),
\* every fetched file highlighted
InitWith(docs, themes, options, titles) ==
    /\ \E d \in docs :
           /\ tableOfContents = d[1]
           /\ textFiles = d[2]
           /\ validFiles = d[2]
           /\ highlightedFiles = FilesOf(d[2])
    /\ theme \in themes
    /\ \E o \in options : fontSize = o[1] /\ lineSpacing = o[2]
    /\ titleLines \in titles
    /\ pc = "format"
    /\ AppRunning(3, Len(validFiles))
    /\ RenderStart

NextWith(lineCounts, lines) ==
    \/ Format
    \/ Setup
    \/ Title
    \/ TocHeading
    \/ TocEntry
    \/ \E n \in lineCounts : FileSeparator(n)
    \/ BlankLine
    \/ \E l \in lines : LineStart(l)
    \/ PlaceToken
    \/ LineEnd

\* Layout: every text width, one colour; a few documents, each a pair of
\* the table of contents and the paths of the files in arrival order.
LayoutLines == SeqsUpTo(Tokens(Texts, {Purple}), MaxTokens)

LayoutDocs == {<<<<>>, <<>>>>,
               <<<<>>, <<"a.ts">>>>,
               <<<<>>, <<"deep/long.ts">>>>,
               <<<<"a.ts", "deep/long.ts">>, <<"deep/long.ts", "a.ts">>>>}

Init == InitWith(LayoutDocs, {"light"}, Options, TitleLineCounts)

Next == NextWith(0..MaxLines, LayoutLines)

Spec == Init /\ [][Next]_vars

\* Order: every table of contents and arrival order within the bounds, files
\* of one line with one token.
OrderDocs == SeqsUpTo(Paths, MaxToc) \X SeqsUpTo(Paths, MaxFiles)

InitOrder == InitWith(OrderDocs, {"light"}, {<<9, 115>>}, {1})

NextOrder == NextWith({0, 1}, SeqsUpTo(Tokens({"half"}, {Purple}), 1))

SpecOrder == InitOrder /\ [][NextOrder]_vars

\* Colour: every colour string under both themes, one text width.
ColourLines == SeqsUpTo(Tokens({"half"}, Colors), MaxTokens)

InitColour == InitWith({<<<<"a.ts">>, <<"a.ts">>>>}, {"light", "dark"}, {<<9, 115>>}, {1})

NextColour == NextWith({1}, ColourLines)

SpecColour == InitColour /\ [][NextColour]_vars

\* Theme: both themes, titles that leave the page break to the title, to
\* the file separator or to nobody, lines whose second token wraps.
ThemeLines == SeqsUpTo(Tokens({"full"}, {Purple}), MaxTokens)

InitTheme == InitWith({<<<<"a.ts">>, <<"a.ts">>>>}, {"light", "dark"}, {<<9, 115>>}, {1, 18, 23})

NextTheme == NextWith({0, 1, 2}, ThemeLines)

SpecTheme == InitTheme /\ [][NextTheme]_vars

\* Scenario: the document with the table of contents ["x.ts"] and the one
\* file x.ts, whose lines are the line "const a" of three tokens or a
\* prefix of it, under either theme and a short or a tall title.
ScenarioLine ==
    <<[text |-> "const", color |-> Purple],
      [text |-> " ", color |-> HexBlack],
      [text |-> "a", color |-> Blue]>>

ScenarioLines == {SubSeq(ScenarioLine, 1, n) : n \in 1..Len(ScenarioLine)}

InitScenario == InitWith({<<<<"x.ts">>, <<"x.ts">>>>}, {"light", "dark"}, Options, {1, 18})

NextScenario == NextWith({0, 1, 2}, ScenarioLines)

SpecScenario == InitScenario /\ [][NextScenario]_vars

\* Pipeline: handleSubmit from the fetch on (App.tsx:372-397), over every
\* tree of distinct paths within the bound, every set of failing fetches
\* and every set of failing highlight calls.
Distinct(s) == \A i, j \in 1..Len(s) : i # j => s[i] # s[j]

Trees == {t \in SeqsUpTo(Paths, MaxFiles) : Distinct(t)}

InitPipeline ==
    /\ textFiles \in Trees
    /\ validFiles = <<>>
    /\ highlightedFiles = <<>>
    /\ tableOfContents \in {<<>>, <<"a.ts", "b.ts">>}
    /\ theme = "light"
    /\ fontSize = 9 /\ lineSpacing = 115
    /\ titleLines = 1
    /\ pc = "fetch"
    /\ AppRunning(1, 0)
    /\ RenderStart

NextPipeline ==
    \/ \E ok \in SUBSET (1..MaxFiles) : GetRepoFiles(ok)
    \/ \E p \in BOOLEAN, ok \in SUBSET (1..MaxFiles) : HighlightFiles(p, ok)
    \/ NextWith({0, 1}, SeqsUpTo(Tokens({"half"}, {Purple}), 1))

SpecPipeline == InitPipeline /\ [][NextPipeline]_vars

(***************************************************************************)
(* App: handleSubmit and handleReset, request by request.                  *)
(***************************************************************************)
\* v || prev of App.tsx:367-368 and 388-389: 0 and undefined give prev
OrPrev(v, prev) == IF v = 0 THEN prev ELSE v

\* Mutant of FetchProgress: the callback sets the step of the tree fetch.
FetchProgressStepOne(p, current, total) ==
    <<[stepIndex |-> 1,
       fileCurrent |-> OrPrev(current, p[1].fileCurrent),
       fileTotal |-> OrPrev(total, p[1].fileTotal)]>>

\* App.tsx:362-370: onFetchProgressUpdate applied to the progress p; an
\* update without fileProgress has current = total = 0.
FetchProgress(p, current, total) ==
    <<[stepIndex |-> 2,
       fileCurrent |-> OrPrev(current, p[1].fileCurrent),
       fileTotal |-> OrPrev(total, p[1].fileTotal)]>>

\* App.tsx:382-392: onAiProgressUpdate applied to the progress p.
AiProgress(p, current, total) ==
    IF p = <<>> \/ p[1].stepIndex # 3 THEN p
    ELSE <<[p[1] EXCEPT !.fileCurrent = OrPrev(current, @),
                        !.fileTotal = OrPrev(total, @)]>>

\* the outcomes of a GitHub API request (part_000:30-39)
Responses == {"ok", "404", "403", "500"}

\* App.tsx:403-417: the title of the AppError for the error thrown
ErrorTitle(thrown) ==
    CASE thrown = "404" -> "Repository Not Found"
      [] thrown = "403" -> "Rate Limit Exceeded"
      [] thrown = "ai failed" -> "AI Processing Error"
      [] OTHER -> "An Unexpected Error Occurred"

\* Mutant of CountAfter: only a request that succeeded is counted.
CountAfterSuccess(count, ok) == IF ok THEN count + 1 ELSE count

\* part_000:73-74, gemini.ts:154-155: processedCount++ in the finally of
\* each request, whatever its outcome.
CountAfter(count, ok) == count + 1

\* the indices of the requests that gave a result
Succeeded(st) == {i \in 1..Len(st) : st[i] = "ok"}

\* Mutant of Collect: the results are pushed as the requests complete.
CollectAsCompleted(paths, st, order) ==
    FilesOf(Keep([k \in 1..Len(order) |-> paths[order[k]]],
                 {k \in 1..Len(order) : st[order[k]] = "ok"}))

\* gemini.ts:163-169: Promise.all gives the results in the order of the
\* requests, and forEach pushes those that are not null.
Collect(paths, st, order) == FilesOf(Keep(paths, Succeeded(st)))

\* App.tsx:442: the form is rendered
FormShown == ~isLoading /\ pdfBlob = "null" /\ error = "null"

\* App.tsx:463: the progress tracker is rendered
TrackerShown == (isLoading \/ pdfBlob # "null") /\ progress # <<>> /\ error = "null"

\* App.tsx:187: isDone of the progress tracker
isDone == progress # <<>> /\ progress[1].stepIndex = 5 /\ pdfBlob # "null"

\* App.tsx:471: the error message is rendered
ErrorShown == error # "null" /\ ~isLoading

\* Mutant of ResetShown: the tracker offers its reset button at every step.
ResetShownWhileTracking == TrackerShown \/ ErrorShown

\* App.tsx:209-245, 298-303: a button that calls handleReset is rendered
ResetShown == (TrackerShown /\ isDone) \/ ErrorShown

\* handleSubmit is suspended at an await with a request in flight, or is
\* not running: the points at which a user event can be handled
AtYield ==
    \/ pc \in {"idle", "repoDetails", "tree", "structure"}
    \/ pc \in {"blobs", "highlights"} /\ pending # {}

\* the locals of a fresh run: no document, the renderer not started
FreshRun ==
    /\ textFiles' = <<>>
    /\ validFiles' = <<>>
    /\ tableOfContents' = <<>>
    /\ highlightedFiles' = <<>>
    /\ files' = <<>>
    /\ page' = 1
    /\ y' = MARGIN
    /\ x' = MARGIN
    /\ ti' = 0
    /\ fi' = 0
    /\ nLines' = 0
    /\ li' = 0
    /\ out' = <<>>
    /\ sections' = <<>>
    /\ chk' = <<>>
    /\ pendingBreak' = FALSE
    /\ fills' = {}
    /\ ClearLine

\* no request in flight and nothing counted
NoRequests ==
    /\ pending' = {}
    /\ settled' = <<>>
    /\ completed' = <<>>
    /\ processedCount' = 0
    /\ reports' = <<>>

\* Mutant of Fail: the loading flag is left set.
FailStaysLoading(thrown) ==
    /\ error' = ErrorTitle(thrown)
    /\ progress' = <<>>
    /\ pdfBlob' = "null"
    /\ pc' = "idle"
    /\ NoRequests
    /\ UNCHANGED <<isLoading, repoName, textFiles, validFiles, tableOfContents,
                   highlightedFiles, theme, fontSize, lineSpacing, titleLines,
                   render>>

\* Mutant of Fail: the catch block leaves the progress on the screen.
FailKeepsProgress(thrown) ==
    /\ error' = ErrorTitle(thrown)
    /\ pdfBlob' = "null"
    /\ isLoading' = FALSE
    /\ pc' = "idle"
    /\ NoRequests
    /\ UNCHANGED <<progress, repoName, textFiles, validFiles, tableOfContents,
                   highlightedFiles, theme, fontSize, lineSpacing, titleLines,
                   render>>

\* App.tsx:402-423: the catch block and the finally block for the error
\* thrown.
Fail(thrown) ==
    /\ error' = ErrorTitle(thrown)
    /\ progress' = <<>>
    /\ pdfBlob' = "null"
    /\ isLoading' = FALSE
    /\ pc' = "idle"
    /\ NoRequests
    /\ UNCHANGED <<repoName, textFiles, validFiles, tableOfContents,
                   highlightedFiles, theme, fontSize, lineSpacing, titleLines,
                   render>>

\* App.tsx:32-43, 342-350: the form is submitted with a URL that
\* parseRepoUrl accepts (RepoForm lets no other through); handleSubmit
\* resets the state and shows step 0.
Submit ==
    /\ step' = "Submit"
    /\ AtYield
    /\ FormShown
    /\ isLoading' = TRUE
    /\ error' = "null"
    /\ pdfBlob' = "null"
    /\ repoName' = "null"
    /\ progress' = Progress(0, 0, 0)
    /\ pc' = "parse"
    /\ FreshRun
    /\ NoRequests
    /\ UNCHANGED <<theme, fontSize, lineSpacing, titleLines>>

\* what the stages before the renderer leave alone
options == <<theme, fontSize, lineSpacing, titleLines>>

requests == <<pending, settled, completed, processedCount, reports>>

\* App.tsx:353-360: the URL is parsed, the repository named, step 1 shown.
ParseUrl ==
    /\ step' = "ParseUrl"
    /\ pc = "parse"
    /\ repoName' = "repo"
    /\ progress' = <<[progress[1] EXCEPT !.stepIndex = 1]>>
    /\ pc' = "getRepoFiles"
    /\ UNCHANGED <<isLoading, error, pdfBlob, requests, textFiles, validFiles,
                   tableOfContents, highlightedFiles, options, render>>

\* App.tsx:372, part_000:42-44: getRepoFiles reports and requests the
\* repository.
StartFetch ==
    /\ step' = "StartFetch"
    /\ pc = "getRepoFiles"
    /\ progress' = FetchProgress(progress, 0, 0)
    /\ pc' = "repoDetails"
    /\ UNCHANGED <<isLoading, error, pdfBlob, repoName, requests, textFiles,
                   validFiles, tableOfContents, highlightedFiles, options,
                   render>>

\* part_000:44-48: the request for the repository settles with r; on
\* success getRepoFiles reports and requests the tree.
RepoDetailsSettles(r) ==
    /\ step' = "RepoDetailsSettles"
    /\ pc = "repoDetails"
    /\ IF r = "ok"
       THEN /\ progress' = FetchProgress(progress, 0, 0)
            /\ pc' = "tree"
            /\ UNCHANGED <<isLoading, error, pdfBlob, repoName, requests,
                           textFiles, validFiles, tableOfContents,
                           highlightedFiles, options, render>>
       ELSE Fail(r)

\* part_000:48-64: the request for the tree settles with r, tree being the
\* paths that pass the filter; an empty list throws, otherwise one blob
\* request per file starts.
TreeSettles(r, tree) ==
    /\ step' = "TreeSettles"
    /\ pc = "tree"
    /\ IF r # "ok" THEN Fail(r)
       ELSE IF Len(tree) = 0 THEN Fail("no text files")
       ELSE /\ textFiles' = tree
            /\ progress' = FetchProgress(progress, 0, Len(tree))
            /\ pending' = 1..Len(tree)
            /\ settled' = [i \in 1..Len(tree) |-> "pending"]
            /\ completed' = <<>>
            /\ processedCount' = 0
            /\ reports' = <<0>>
            /\ pc' = "blobs"
            /\ UNCHANGED <<isLoading, error, pdfBlob, repoName, validFiles,
                           tableOfContents, highlightedFiles, options, render>>

\* part_000:64-80: the blob request of file i settles, with a base64 blob
\* (ok) or not; its finally counts it and reports.
BlobSettles(i, ok) ==
    /\ step' = "BlobSettles"
    /\ pc = "blobs"
    /\ i \in pending
    /\ pending' = pending \ {i}
    /\ settled' = [settled EXCEPT ![i] = IF ok THEN "ok" ELSE "null"]
    /\ completed' = Append(completed, i)
    /\ processedCount' = CountAfter(processedCount, ok)
    /\ reports' = Append(reports, processedCount')
    /\ progress' = FetchProgress(progress, processedCount', Len(textFiles))
    /\ UNCHANGED <<pc, isLoading, error, pdfBlob, repoName, textFiles,
                   validFiles, tableOfContents, highlightedFiles, options,
                   render>>

\* part_000:82-85, App.tsx:372-394, gemini.ts:102-121: every blob request
\* has settled; getRepoFiles returns the files that were fetched, step 3 is
\* shown, and formatRepoForPdf reports and requests the structure.
FetchResolves ==
    /\ step' = "FetchResolves"
    /\ pc = "blobs"
    /\ pending = {}
    /\ validFiles' = Keep(textFiles, Succeeded(settled))
    /\ progress' = AiProgress(Progress(3, 0, 0), 0, 0)
    /\ pc' = "structure"
    /\ NoRequests
    /\ UNCHANGED <<isLoading, error, pdfBlob, repoName, textFiles,
                   tableOfContents, highlightedFiles, options, render>>

\* gemini.ts:114-161: the structure request settles: it fails or its text
\* does not parse, or it gives the table of contents toc; then
\* formatRepoForPdf reports and starts one highlight request per file.
StructureSettles(parses, toc) ==
    /\ step' = "StructureSettles"
    /\ pc = "structure"
    /\ IF ~parses THEN Fail("structure")
       ELSE /\ tableOfContents' = toc
            /\ progress' = AiProgress(progress, 0, Len(validFiles))
            /\ pending' = 1..Len(validFiles)
            /\ settled' = [i \in 1..Len(validFiles) |-> "pending"]
            /\ completed' = <<>>
            /\ processedCount' = 0
            /\ reports' = <<0>>
            /\ pc' = "highlights"
            /\ UNCHANGED <<isLoading, error, pdfBlob, repoName, textFiles,
                           validFiles, highlightedFiles, options, render>>

\* gemini.ts:135-161: the highlight request of file i settles, with a
\* response that parses (ok) or not; its finally counts it and reports.
HighlightSettles(i, ok) ==
    /\ step' = "HighlightSettles"
    /\ pc = "highlights"
    /\ i \in pending
    /\ pending' = pending \ {i}
    /\ settled' = [settled EXCEPT ![i] = IF ok THEN "ok" ELSE "null"]
    /\ completed' = Append(completed, i)
    /\ processedCount' = CountAfter(processedCount, ok)
    /\ reports' = Append(reports, processedCount')
    /\ progress' = AiProgress(progress, processedCount', Len(validFiles))
    /\ UNCHANGED <<pc, isLoading, error, pdfBlob, repoName, textFiles,
                   validFiles, tableOfContents, highlightedFiles, options,
                   render>>

\* Mutant of NoneHighlighted: one missing file is enough to throw.
SomeNotHighlighted(highlighted, given) == Len(highlighted) < Len(given)

\* gemini.ts:171: the condition of the throw of formatRepoForPdf.
NoneHighlighted(highlighted, given) == Len(highlighted) = 0 /\ Len(given) > 0

\* gemini.ts:163-186, App.tsx:394-397: every highlight request has settled;
\* the results are collected, formatRepoForPdf throws if files were given
\* and none is left, else it sorts them and returns, step 4 is shown and
\* generateRepoPdf is called.
HighlightResolves ==
    /\ step' = "HighlightResolves"
    /\ pc = "highlights"
    /\ pending = {}
    /\ LET highlighted == Collect(validFiles, settled, completed)
       IN  IF NoneHighlighted(highlighted, validFiles)
           THEN Fail("ai failed")
           ELSE /\ highlightedFiles' = highlighted
                /\ files' = SortFiles(highlighted)
                /\ progress' = <<[progress[1] EXCEPT !.stepIndex = 4]>>
                /\ pc' = "setup"
                /\ pending' = {}
                /\ settled' = <<>>
                /\ processedCount' = 0
                /\ reports' = <<>>
                /\ completed' = completed
                /\ UNCHANGED <<isLoading, error, pdfBlob, repoName, textFiles,
                               validFiles, tableOfContents, options, page, y, x,
                               ti, fi, nLines, li, line, tk, out, lineRuns,
                               sections, chk, lineY0, wraps, lineBroke,
                               pendingBreak, fills>>

\* pdf.ts:85: the file whose separator was just emitted has no lines array
\* (the parsed response is not validated, gemini.ts:146), and forEach
\* throws out of generateRepoPdf.
RenderThrows ==
    /\ step' = "RenderThrows"
    /\ step = "FileSeparator"
    /\ pc \in {"file", "line", "done"}
    /\ Fail("render")

\* pdf.ts:123, App.tsx:397-400, 421-423: generateRepoPdf returns the blob,
\* which is stored, step 5 is shown and the loading ends.
PdfReady ==
    /\ step' = "PdfReady"
    /\ pc = "done"
    /\ pdfBlob' = "blob"
    /\ progress' = <<[progress[1] EXCEPT !.stepIndex = 5]>>
    /\ isLoading' = FALSE
    /\ pc' = "idle"
    /\ UNCHANGED <<error, repoName, requests, textFiles, validFiles,
                   tableOfContents, highlightedFiles, options, render>>

\* App.tsx:334-340: a reset button is clicked.
Reset ==
    /\ step' = "Reset"
    /\ AtYield
    /\ ResetShown
    /\ isLoading' = FALSE
    /\ progress' = <<>>
    /\ error' = "null"
    /\ pdfBlob' = "null"
    /\ repoName' = "null"
    /\ UNCHANGED <<pc, pending, settled, completed, processedCount, reports,
                   textFiles, validFiles, tableOfContents, highlightedFiles,
                   theme, fontSize, lineSpacing, titleLines, render>>

\* App: the application from its first render on, with trees of at most
\* two files, every outcome and completion order of the requests, and files
\* of at most one line.
AppPaths == {"a.ts", "b.ts"}

AppTrees == {t \in SeqsUpTo(AppPaths, 2) : Distinct(t)}

AppTocs == {<<>>, <<"b.ts", "a.ts">>}

InitApp ==
    /\ isLoading = FALSE
    /\ progress = <<>>
    /\ error = "null"
    /\ pdfBlob = "null"
    /\ repoName = "null"
    /\ pending = {}
    /\ settled = <<>>
    /\ completed = <<>>
    /\ processedCount = 0
    /\ reports = <<>>
    /\ textFiles = <<>>
    /\ validFiles = <<>>
    /\ tableOfContents = <<>>
    /\ highlightedFiles = <<>>
    /\ theme = "light"
    /\ fontSize = 9 /\ lineSpacing = 115
    /\ titleLines = 1
    /\ pc = "idle"
    /\ RenderStart

\* the steps of a run of handleSubmit: its synchronous code and the
\* settling of its requests
PipelineStep ==
    \/ ParseUrl
    \/ StartFetch
    \/ \E r \in Responses : RepoDetailsSettles(r)
    \/ \E r \in Responses, tree \in AppTrees : TreeSettles(r, tree)
    \/ \E i \in 1..2, ok \in BOOLEAN : BlobSettles(i, ok)
    \/ FetchResolves
    \/ \E parses \in BOOLEAN, toc \in AppTocs : StructureSettles(parses, toc)
    \/ \E i \in 1..2, ok \in BOOLEAN : HighlightSettles(i, ok)
    \/ HighlightResolves
    \/ Setup
    \/ Title
    \/ TocHeading
    \/ TocEntry
    \/ \E n \in {0, 1} : FileSeparator(n)
    \/ BlankLine
    \/ \E l \in SeqsUpTo(Tokens({"half"}, {Purple}), 1) : LineStart(l)
    \/ PlaceToken
    \/ LineEnd
    \/ RenderThrows
    \/ PdfReady

NextApp ==
    \/ Submit
    \/ Reset
    \/ PipelineStep

SpecApp == InitApp /\ [][NextApp]_vars

\* the same, every request settling in the end and the code that waits for
\* nothing running on; the user need not do anything
SpecAppFair == SpecApp /\ WF_vars(PipelineStep)

(***************************************************************************)
(* Properties.                                                             *)
(***************************************************************************)
LayingOutLine == pc \in {"token", "lineEnd"}

bottom == pageHeight - MARGIN

\* the latest step placed a token
TokenPlaced == step = "PlaceToken"

\* the token that the latest step placed, as declared in the input line
PlacedToken == line[tk]

\* the token step about to be taken puts its run on a new visual row
StartsNewRow == out'[1].page # page \/ out'[1].y # y

\* C1: no token splitting.  While a line is laid out, the runs emitted for it
\* are, in order, one run per token placed so far, each with the token's
\* whole text at one position, and the step that places a token emits that
\* one run; when the line is finished every token of it has its run.
NoTokenSplitting ==
    /\ LayingOutLine =>
         /\ Len(lineRuns) = tk
         /\ \A i \in 1..Len(lineRuns) :
              /\ i <= Len(line)
              /\ lineRuns[i].text = line[i].text
              /\ lineRuns[i].n = 1
    /\ TokenPlaced => out = <<lineRuns[tk]>>
    /\ pc = "lineEnd" => tk = Len(line)

\* C1 witness: a line of two tokens is finished, the second wider than the
\* content width and wrapped to a row of its own, in one piece.
OversizedTokenPlacedWhole ==
    /\ pc = "lineEnd"
    /\ Len(lineRuns) = 2
    /\ lineRuns[2].text = "full+"
    /\ getTextWidth(lineRuns[2].text) > contentWidth
    /\ lineRuns[2].y # lineRuns[1].y

\* C2: page bound.  Every line of every run emitted lies between the top
\* margin and the bottom margin.
PageBound ==
    \A i \in 1..Len(out) :
        /\ MARGIN <= out[i].y
        /\ out[i].y + (out[i].n - 1) * out[i].leading <= bottom

\* C3: TOC/file join.  Of two emitted file sections whose paths both occur in
\* the table of contents, the one with the smaller index there comes first;
\* and when the pass is done every highlighted file has its section.
InToc(f) == indexOf(tableOfContents, f.path) >= 0

TocOrder ==
    /\ \A i, j \in 1..Len(sections) :
         (/\ InToc(sections[i])
          /\ InToc(sections[j])
          /\ indexOf(tableOfContents, sections[i].path)
               < indexOf(tableOfContents, sections[j].path))
         => i < j
    /\ pc = "done" =>
         /\ Len(sections) = Len(highlightedFiles)
         /\ \A f \in 1..Len(highlightedFiles) :
              \E i \in 1..Len(sections) : sections[i] = highlightedFiles[f]

\* C3 witness: TOC [b.ts, a.ts], files arriving a.ts then b.ts, rendered
\* b.ts then a.ts.
TocOrderReversesArrival ==
    /\ pc = "done"
    /\ tableOfContents = <<"b.ts", "a.ts">>
    /\ highlightedFiles = FilesOf(<<"a.ts", "b.ts">>)
    /\ sections = <<[path |-> "b.ts", id |-> 2], [path |-> "a.ts", id |-> 1]>>

\* C4: files whose path is not in the table of contents are emitted after
\* every file whose path is in it, and keep their arrival order.
AbsentFilesLast ==
    /\ \A i, j \in 1..Len(sections) :
         (~InToc(sections[i]) /\ InToc(sections[j])) => j < i
    /\ \A i, j \in 1..Len(sections) :
         (~InToc(sections[i]) /\ ~InToc(sections[j]) /\ sections[i].id < sections[j].id)
         => i < j

\* C5: wrap rule.  A token of width w met at x goes to a new visual row if
\* and only if x > MARGIN and x + w > pageWidth - MARGIN; then LINE_HEIGHT is
\* added to y first, the page-break check runs on that y, and the token is
\* placed at x = MARGIN; otherwise it is placed at x on the current row.
WrapRule ==
    [][pc = "token" =>
         LET w == getTextWidth(line[tk + 1].text)
             wrapDue == x > MARGIN /\ x + w > pageWidth - MARGIN
             row == y + LINE_HEIGHT
             breakDue == row + LINE_HEIGHT > bottom
         IN  /\ StartsNewRow <=> wrapDue
             /\ wrapDue =>
                  /\ out'[1].x = MARGIN
                  /\ out'[1].y = IF breakDue THEN MARGIN ELSE row
                  /\ out'[1].page = page + IF breakDue THEN 1 ELSE 0
             /\ ~wrapDue => out'[1].x = x
             /\ x' = out'[1].x + w
             /\ y' = out'[1].y
             /\ page' = out'[1].page]_vars

\* C5 witness: a token wrapped, the wrap crossed the page bottom, and the
\* token was placed at the left margin at the top of the new page.
WrappedOntoNewPage ==
    /\ TokenPlaced
    /\ wraps = 1
    /\ lineBroke
    /\ out[1].x = MARGIN
    /\ out[1].y = MARGIN
    /\ out[1].page = 2
    /\ lineRuns[1].page = 1

\* C6 as stated: at the left margin a token of width contentWidth stays on
\* the current row and a token of width contentWidth + 1 wraps.
WrapBoundaryAsStated ==
    [][(pc = "token" /\ x = MARGIN) =>
         LET w == getTextWidth(line[tk + 1].text)
         IN  /\ w = contentWidth => ~StartsNewRow
             /\ w = contentWidth + 1 => StartsNewRow]_vars

\* C6 amended: at the left margin a token of width contentWidth and a token
\* of width contentWidth + 1 both stay on the current row, placed at the
\* left margin; the wider one ends past the right margin.
WrapBoundary ==
    [][(pc = "token" /\ x = MARGIN) =>
         LET w == getTextWidth(line[tk + 1].text)
         IN  w \in {contentWidth, contentWidth + 1} =>
               /\ ~StartsNewRow
               /\ out'[1].x = MARGIN
               /\ x' = MARGIN + w]_vars

\* C6 witness: a token one unit wider than the content width was placed at
\* the left margin of the row the line started on, and ends past the right
\* margin.
OversizedTokenOverflows ==
    /\ TokenPlaced
    /\ getTextWidth(out[1].text) = contentWidth + 1
    /\ out[1].x = MARGIN
    /\ out[1].y = lineY0
    /\ wraps = 0
    /\ x > pageWidth - MARGIN

\* C7: page-break policy.  A checkNewPage(h) call at y adds a page if and
\* only if y + h > pageHeight - MARGIN and then leaves y = MARGIN, else it
\* leaves y as it was; a step adds one page per such call and no other;
\* and the token run that follows a page break is placed at x = MARGIN.
PageBreakPolicy ==
    [][/\ \A i \in 1..Len(chk') :
            LET c == chk'[i]
                due == c.y0 + c.h > bottom
            IN  /\ c.brk <=> due
                /\ c.y1 = IF due THEN MARGIN ELSE c.y0
       /\ page' = page + Cardinality({i \in 1..Len(chk') : chk'[i].y0 + chk'[i].h > bottom})
       /\ (pc = "token" /\ (pendingBreak \/ page' # page)) => out'[1].x = MARGIN]_vars

\* C7 witness: the per-line check of a line that is not the first of its
\* file broke the page, and the line's first token was placed at the top
\* left of the new page.
FirstTokenAfterLineBreak ==
    /\ TokenPlaced
    /\ tk = 1
    /\ li >= 1
    /\ page = 2
    /\ out[1].y = MARGIN
    /\ out[1].x = MARGIN

\* C8: line advance.  After a line with at least one token that wrapped k
\* times and crossed no page break, y is the y of its first token plus
\* (k + 1) * LINE_HEIGHT.
LineAdvance ==
    (step = "LineEnd" /\ ~lineBroke) => y = lineY0 + (wraps + 1) * LINE_HEIGHT

\* C8 witness: a line that wrapped once without a page break is finished.
WrappedLineFinished ==
    /\ step = "LineEnd"
    /\ wraps = 1
    /\ ~lineBroke
    /\ y = lineY0 + 2 * LINE_HEIGHT

\* C9: blank-line preservation.  A line without tokens emits no run and
\* leaves y one LINE_HEIGHT below where the per-line page-break check left it.
BlankLinePreserved ==
    step = "BlankLine" =>
        /\ out = <<>>
        /\ lineRuns = <<>>
        /\ Len(chk) = 1
        /\ chk[1].h = LINE_HEIGHT
        /\ y = chk[1].y1 + LINE_HEIGHT

\* C9 witness: a blank line that is not the first line of its file was
\* passed without a page break.
BlankLinePassed ==
    /\ step = "BlankLine"
    /\ li = 2
    /\ ~chk[1].brk
    /\ out = <<>>
    /\ y = chk[1].y0 + LINE_HEIGHT

\* C10: colour policy.  The colour a token is drawn in is the first that
\* applies of: the dark foreground if the theme is dark and the declared
\* colour is '#000000' or 'black'; the light foreground if the theme is
\* light and it is '#FFFFFF' or 'white'; the theme's default if it is not
\* '#' and six hex digits; the declared colour itself.  The colour drawn is
\* always '#' and six hex digits.
ColourByPolicy(c) ==
    IF theme = "dark" /\ c \in {HexBlack, NameBlack} THEN DARK_MODE_TEXT
    ELSE IF theme = "light" /\ c \in {HexWhite, NameWhite} THEN LIGHT_MODE_TEXT
    ELSE IF ~IsHexColor(c) THEN (IF theme = "dark" THEN DARK_MODE_TEXT ELSE LIGHT_MODE_TEXT)
    ELSE c

ColourPolicy ==
    TokenPlaced =>
        /\ out[1].color = ColourByPolicy(PlacedToken.color)
        /\ IsHexColor(out[1].color)

\* C10 witness: under the dark theme a token declared 'fuchsia' was drawn in
\* the dark theme's default colour.
MalformedColourReplaced ==
    /\ TokenPlaced
    /\ theme = "dark"
    /\ PlacedToken.color = Fuchsia
    /\ out[1].color = DARK_MODE_TEXT

\* C11: black/white collision safety.  Under the light theme no token is
\* drawn in pure white, however the case of its hex digits, and under the
\* dark theme none is drawn in pure black.
IsPureWhite(c) == Len(c) = 7 /\ c[1] = "#" /\ \A i \in 2..7 : c[i] \in {"F", "f"}

IsPureBlack(c) == Len(c) = 7 /\ c[1] = "#" /\ \A i \in 2..7 : c[i] = "0"

NoCollision ==
    TokenPlaced =>
        /\ theme = "light" => ~IsPureWhite(out[1].color)
        /\ theme = "dark" => ~IsPureBlack(out[1].color)

\* the part of the document a step belongs to: setup, title block, table of
\* contents, file sections
Stage(s) ==
    CASE s \in {"Init", "Format", "Setup"} -> 0
      [] s = "Title" -> 1
      [] s \in {"TocHeading", "TocEntry"} -> 2
      [] OTHER -> 3

\* C12: emission order.  The title block comes first, then the entries of
\* the table of contents in tableOfContents order, then the file sections
\* one after another: a separator is emitted only when the file before it
\* is finished, a token only inside a section, the lines of a file in
\* source order and the tokens of a line in token order.
EmissionOrder ==
    [][/\ Stage(step') >= Stage(step)
       /\ step' = "Title" => step = "Setup"
       /\ step' = "TocHeading" => step = "Title"
       /\ step' = "TocEntry" =>
              /\ ti' = ti + 1
              /\ out'[1].kind = "toc"
              /\ out'[1].text = tableOfContents[ti']
       /\ step' = "FileSeparator" =>
              /\ step \notin {"LineStart", "PlaceToken"}
              /\ li = nLines
              /\ ti = Len(tableOfContents)
              /\ fi' = fi + 1
              /\ out'[1].kind = "separator"
              /\ out'[1].text = files[fi'].path
              /\ sections' = Append(sections, files[fi'])
       /\ step' \in {"LineStart", "BlankLine"} =>
              /\ step \in {"FileSeparator", "BlankLine", "LineEnd"}
              /\ li < nLines
              /\ fi' = fi /\ fi = Len(sections) /\ fi > 0
       /\ step' = "BlankLine" => li' = li + 1
       /\ step' = "LineStart" => li' = li /\ tk' = 0
       /\ step' = "PlaceToken" =>
              /\ step \in {"LineStart", "PlaceToken"}
              /\ fi > 0 /\ fi' = fi /\ li' = li
              /\ tk' = tk + 1
              /\ out'[1].kind = "token"
              /\ out'[1].text = line[tk'].text
       /\ step' = "LineEnd" =>
              /\ step = "PlaceToken"
              /\ tk = Len(line)
              /\ li' = li + 1 /\ fi' = fi
      ]_vars

\* a document with two entries and two sections has been emitted to its end
WholeDocumentEmitted ==
    /\ pc = "done"
    /\ ti = 2
    /\ Len(sections) = 2
    /\ step = "LineEnd"

\* C13: title placement.  Whatever the number of lines the title wraps to,
\* the title block is emitted on page 1 with its first line at the top
\* margin, so that no page precedes the page that holds the title.
TitlePlacement ==
    step = "Title" => out[1].kind = "title" /\ out[1].page = 1 /\ out[1].y = MARGIN

\* the first line of the title block is at the top margin of its page
TitleAtTopMargin == step = "Title" => out[1].y = MARGIN

\* C14: cursor monotonicity.  The page number never decreases and grows by
\* one page at a time; while the page stays the same y never decreases; a
\* step that advances the page resets y to exactly MARGIN, so the run it
\* emits starts at MARGIN and y ends at or below it.
CursorMonotone ==
    [][/\ page' >= page
       /\ page' = page => y' >= y
       /\ page' # page =>
              /\ page' = page + 1
              /\ chk' # <<>>
              /\ chk'[1].brk
              /\ chk'[1].y1 = MARGIN
              /\ y' >= MARGIN
              /\ out' # <<>> => out'[1].page = page' /\ out'[1].y = MARGIN
      ]_vars

\* a line of code has just opened the second page
LineOpenedPage ==
    /\ step = "LineStart"
    /\ page = 2
    /\ chk[1].brk
    /\ y = MARGIN

\* C15: themed background.  Under the dark theme every page of the output
\* is filled: the first one by the setup, before the title, and every
\* other one in the step that adds it, so that a run placed on a page that
\* an earlier step opened finds it filled.  Under the light theme no page
\* is ever filled.
ThemedBackground ==
    [][/\ theme = "light" => fills' = {}
       /\ theme = "dark" =>
              /\ fills \subseteq fills'
              /\ step' # "Format" => fills' = 1..page'
              /\ step' = "Title" => 1 \in fills
              /\ \A i \in 1..Len(out') :
                     /\ out'[i].page \in fills'
                     /\ page' = page => out'[i].page \in fills
      ]_vars

\* under the dark theme a token was placed on a filled second page
TokenOnFilledSecondPage ==
    /\ theme = "dark"
    /\ step = "PlaceToken"
    /\ out[1].page = 2
    /\ fills = {1, 2}

\* C16: empty-text token.  A token whose text is the empty string emits one
\* run and leaves x, y, the page and the number of wraps as they were,
\* wherever the cursor is when it is met.
EmptyTokenInert ==
    [][step' = "PlaceToken" /\ line[tk + 1].text = "" =>
           /\ Len(out') = 1
           /\ x' = x
           /\ y' = y
           /\ page' = page
           /\ wraps' = wraps
      ]_vars

\* the same for an empty token met with the cursor within the right margin
EmptyTokenInertWithinMargin ==
    [][step' = "PlaceToken" /\ line[tk + 1].text = "" /\ x <= pageWidth - MARGIN =>
           /\ Len(out') = 1
           /\ x' = x
           /\ y' = y
           /\ page' = page
           /\ wraps' = wraps
      ]_vars

\* the options and the structure of the end-to-end scenario: a title of one
\* line, the table of contents ["x.ts"], the file x.ts, 9pt, 1.15, light
ScenarioInputs ==
    /\ titleLines = 1
    /\ tableOfContents = <<"x.ts">>
    /\ Len(highlightedFiles) = 1 /\ highlightedFiles[1].path = "x.ts"
    /\ fontSize = 9
    /\ lineSpacing = 115
    /\ theme = "light"

\* C18: end-to-end scenario.  The render of the scenario emits, in this
\* order and all on page 1, the title block, the heading "Table of
\* Contents", the entry "x.ts", the separator of x.ts and the three tokens
\* of its line, these at strictly increasing x and the same y; it ends
\* with one page.  The heading is the one run that the table of contents
\* emits besides its entries.
ScenarioRuns ==
    [][ScenarioInputs /\ pc # "format" =>
           /\ page' = 1
           /\ step' = "Title" =>
                  /\ step = "Setup"
                  /\ Len(out') = 1 /\ out'[1].kind = "title" /\ out'[1].page = 1
           /\ step' = "TocHeading" =>
                  /\ step = "Title"
                  /\ Len(out') = 1 /\ out'[1].kind = "tocHead" /\ out'[1].page = 1
                  /\ out'[1].y > out[1].y
           /\ step' = "TocEntry" =>
                  /\ step = "TocHeading"
                  /\ Len(out') = 1 /\ out'[1].kind = "toc" /\ out'[1].page = 1
                  /\ out'[1].text = "x.ts"
                  /\ out'[1].y > out[1].y
           /\ step' = "FileSeparator" =>
                  /\ step = "TocEntry"
                  /\ Len(out') = 1 /\ out'[1].kind = "separator" /\ out'[1].page = 1
                  /\ out'[1].text = "x.ts"
                  /\ out'[1].y > out[1].y
           /\ step' = "PlaceToken" /\ nLines = 1 /\ line = ScenarioLine =>
                  /\ Len(out') = 1 /\ out'[1].kind = "token" /\ out'[1].page = 1
                  /\ out'[1].text = ScenarioLine[tk'].text
                  /\ tk > 0 => out'[1].x > out[1].x /\ out'[1].y = out[1].y
           /\ step' = "LineEnd" /\ nLines = 1 /\ line = ScenarioLine =>
                  /\ Len(lineRuns) = 3
                  /\ pc' = "done"
      ]_vars

\* the third token of the scenario's line has been placed
ScenarioLinePlaced ==
    /\ ScenarioInputs
    /\ nLines = 1
    /\ line = ScenarioLine
    /\ step = "PlaceToken"
    /\ tk = 3
    /\ Len(lineRuns) = 3
    /\ lineRuns[1].x < lineRuns[2].x /\ lineRuns[2].x < lineRuns[3].x
    /\ page = 1

\* generateRepoPdf has been invoked (App.tsx:397)
RenderInvoked == pc \notin {"fetch", "highlight", "format", "failed"}

\* C19: non-empty input contract.  Whatever fetches and highlight calls
\* fail, generateRepoPdf is not invoked with an empty files sequence.
NonEmptyContract == RenderInvoked => Len(files) > 0

\* the guard of formatRepoForPdf does hold: it never returns an empty
\* files sequence for a non-empty argument
NonEmptyForNonEmptyArgument == RenderInvoked /\ Len(validFiles) > 0 => Len(files) > 0

\* C20: empty document.  Called with files = [], generateRepoPdf emits the
\* title block and the table of contents, heading and entries, and is done
\* as soon as the last of them is out: no file separator, no line and no
\* token run is emitted.
EmptyDocument ==
    highlightedFiles = <<>> /\ pc # "format" =>
        /\ files = <<>>
        /\ step \in {"Format", "Setup", "Title", "TocHeading", "TocEntry"}
        /\ pc \in {"setup", "title", "tocHead", "toc", "done"}
        /\ \A i \in 1..Len(out) : out[i].kind \in {"title", "tocHead", "toc"}
        /\ sections = <<>> /\ fi = 0
        /\ lineRuns = <<>> /\ tk = 0
        /\ step = "Title" => Len(out) = 1 /\ out[1].kind = "title"
        /\ step = "TocEntry" => Len(out) = 1 /\ out[1].text = tableOfContents[ti]
        /\ pc = "done" <=>
               /\ step \in {"TocHeading", "TocEntry"}
               /\ ti = Len(tableOfContents)

\* the render of a document without files is done after its second entry
EmptyDocumentDone ==
    /\ highlightedFiles = <<>>
    /\ files = <<>>
    /\ pc = "done"
    /\ step = "TocEntry"
    /\ ti = 2

\* C21: no partial output on failure.  A run of handleSubmit that ends
\* otherwise than by storing the blob of a finished render leaves pdfBlob
\* null, progress null, error set and isLoading false; and pdfBlob becomes
\* non-null only in the step that follows the normal return of
\* generateRepoPdf.
NoPartialOutput ==
    [][/\ pc # "idle" /\ pc' = "idle" /\ step' # "PdfReady" =>
              /\ pdfBlob' = "null"
              /\ progress' = <<>>
              /\ error' # "null"
              /\ isLoading' = FALSE
       /\ pdfBlob = "null" /\ pdfBlob' # "null" =>
              /\ step' = "PdfReady"
              /\ pc = "done"
              /\ fi = Len(files) /\ ti = Len(tableOfContents)
      ]_vars

\* generateRepoPdf threw after it had emitted runs, and nothing is exposed
RenderFailedUnexposed ==
    /\ step = "RenderThrows"
    /\ Len(sections) > 0
    /\ pdfBlob = "null"
    /\ progress = <<>>
    /\ error # "null"
    /\ ~isLoading

\* the two colour steps in the other order: the hex check with the theme's
\* default as substitute first, the remap of black and white second
ValidateThenAdjust(c) == AdjustForTheme(ValidateColor(c))

\* C22: order of the colour steps.  For every colour string and under both
\* themes the colour a token is drawn in, which the code gets by adjusting
\* first and validating second, is the colour that validating first and
\* adjusting second gives.
ColourStepsCommute ==
    TokenPlaced => out[1].color = ValidateThenAdjust(PlacedToken.color)

\* under the dark theme a token declared 'black', which both steps change,
\* was drawn in the dark theme's foreground
NamedBlackDrawnLight ==
    /\ TokenPlaced
    /\ theme = "dark"
    /\ PlacedToken.color = NameBlack
    /\ out[1].color = DARK_MODE_TEXT
    /\ ValidateThenAdjust(NameBlack) = DARK_MODE_TEXT

\* the position of path in paths, 0 if it is not there
PositionIn(paths, path) ==
    IF \E i \in 1..Len(paths) : paths[i] = path
    THEN CHOOSE i \in 1..Len(paths) : paths[i] = path
    ELSE 0

\* C23: completion-order independence.  When formatRepoForPdf returns, the
\* highlighted files are those whose request succeeded, in the order of the
\* files it was given, whatever the order in which the requests completed,
\* and the files handed to the renderer are these, sorted.
CompletionOrderUnobservable ==
    [][step' = "HighlightResolves" /\ pc' = "setup" =>
           /\ {highlightedFiles'[k].path : k \in 1..Len(highlightedFiles')}
                  = {validFiles[i] : i \in Succeeded(settled)}
           /\ Len(highlightedFiles') = Cardinality(Succeeded(settled))
           /\ \A k, m \in 1..Len(highlightedFiles') :
                  k < m => PositionIn(validFiles, highlightedFiles'[k].path)
                               < PositionIn(validFiles, highlightedFiles'[m].path)
           /\ files' = SortFiles(highlightedFiles')
      ]_vars

\* two files were highlighted, the second one first, and the result has
\* them in the order they were given
CompletedInReverse ==
    /\ step = "HighlightResolves"
    /\ pc = "setup"
    /\ completed = <<2, 1>>
    /\ Len(highlightedFiles) = 2
    /\ highlightedFiles[1].path = validFiles[1]

\* C24: token rows stay inside the page.  With room for one row on a page,
\* every token run, on the first row of its line or on a wrapped row, is
\* placed at a y from MARGIN to pageHeight - MARGIN - LINE_HEIGHT.
TokenRowsInsidePage ==
    MARGIN + LINE_HEIGHT <= pageHeight - MARGIN /\ TokenPlaced =>
        \A i \in 1..Len(out) :
            /\ out[i].kind = "token"
            /\ MARGIN <= out[i].y
            /\ out[i].y <= pageHeight - MARGIN - LINE_HEIGHT

\* a token was placed on a wrapped row that is the last one fitting on the
\* page or the first one of a new page
WrappedRowAtPageEdge ==
    /\ TokenPlaced
    /\ wraps > 0
    /\ Len(chk) = 1
    /\ \/ chk[1].brk /\ out[1].y = MARGIN
       \/ ~chk[1].brk /\ out[1].y + 2 * LINE_HEIGHT > pageHeight - MARGIN

\* the step taken was formatRepoForPdf throwing
FormatFails == step' \in {"StructureSettles", "HighlightResolves"} /\ pc' = "idle"

\* C25 as stated: formatRepoForPdf fails as a whole only when it was given
\* at least one file and the highlight of every file failed.
FailsOnlyWhenAllFailed ==
    [][FormatFails => Len(validFiles) >= 1 /\ Succeeded(settled) = {}]_vars

\* C25: partial highlight failure.  formatRepoForPdf fails as a whole only
\* when its structure request fails or gives an answer that does not
\* parse, or when it was given at least one file and the highlight of every
\* file failed; otherwise it returns every file that was highlighted and
\* none of those that failed.
PartialHighlightFailure ==
    [][/\ FormatFails =>
              \/ step' = "StructureSettles"
              \/ Len(validFiles) >= 1 /\ Succeeded(settled) = {}
       /\ step' = "HighlightResolves" =>
              /\ pc' = "idle" <=> Len(validFiles) >= 1 /\ Succeeded(settled) = {}
              /\ pc' # "idle" =>
                     /\ pc' = "setup"
                     /\ Len(highlightedFiles') = Cardinality(Succeeded(settled))
                     /\ \A i \in 1..Len(validFiles) :
                            i \in Succeeded(settled) <=>
                                \E k \in 1..Len(highlightedFiles') :
                                    highlightedFiles'[k].path = validFiles[i]
      ]_vars

\* of two files one failed and the other one was returned
OneOfTwoHighlighted ==
    /\ step = "HighlightResolves"
    /\ pc = "setup"
    /\ Len(validFiles) = 2
    /\ Len(highlightedFiles) = 1
    /\ Len(files) = 1

\* C26: progress counting under concurrency.  In getRepoFiles and in
\* formatRepoForPdf each request that settles, with a result or without,
\* raises processedCount by one and reports the new value, whatever the
\* order of completion: after the initial report of 0 the values reported
\* are 1, 2, ... in this order, none exceeds the total, and when the
\* function goes on past Promise.all the last value reported is the total.
ProgressCounting ==
    [][/\ step' \in {"BlobSettles", "HighlightSettles"} =>
              /\ processedCount' = processedCount + 1
              /\ reports' = Append(reports, processedCount + 1)
              /\ processedCount' <= Len(settled')
              /\ Cardinality(pending') = Len(settled') - processedCount'
              /\ Len(completed') = processedCount'
       /\ step' \in {"FetchResolves", "HighlightResolves"} =>
              /\ processedCount = Len(settled)
              /\ reports = [k \in 1..Len(settled) + 1 |-> k - 1]
              /\ reports[Len(reports)] = Len(settled)
      ]_vars

\* two highlight requests completed in reverse order, the first to
\* complete without a result, and 0, 1, 2 were reported
CountedInReverse ==
    /\ pc = "highlights"
    /\ pending = {}
    /\ completed = <<2, 1>>
    /\ settled = <<"ok", "null">>
    /\ reports = <<0, 1, 2>>

\* the end state of a run that succeeded
EndedInSuccess ==
    /\ pdfBlob # "null"
    /\ error = "null"
    /\ progress # <<>> /\ progress[1].stepIndex = 5

\* the end state of a run that failed
EndedInFailure ==
    /\ error # "null"
    /\ pdfBlob = "null"
    /\ progress = <<>>

\* C27: pipeline termination.  If every request settles in the end, every
\* run of handleSubmit comes to isLoading = FALSE, in the success state or
\* in the failure state, which exclude each other.
PipelineTerminates ==
    isLoading ~> (~isLoading /\ pc = "idle" /\ (EndedInSuccess \/ EndedInFailure))

\* a run has ended in the success state after a render of two sections
RunSucceeded ==
    /\ step = "PdfReady"
    /\ ~isLoading
    /\ EndedInSuccess
    /\ ~EndedInFailure
    /\ Len(sections) = 2

\* the steps in which getRepoFiles calls onProgress
FetchReports == {"StartFetch", "RepoDetailsSettles", "TreeSettles", "BlobSettles"}

\* the steps in which formatRepoForPdf calls onProgress
AiReports == {"FetchResolves", "StructureSettles", "HighlightSettles"}

\* C28: step monotonicity.  From the 0 that handleSubmit starts with,
\* progress.stepIndex stays or grows by one at each step of a run; the
\* progress callbacks of getRepoFiles all arrive before step 3 and leave
\* step 2, those of formatRepoForPdf all arrive at step 3 and leave it as
\* it is, and they change the progress only if it is at step 3.
StepMonotone ==
    [][/\ step' = "Submit" => progress' = Progress(0, 0, 0)
       /\ step' # "Submit" /\ progress # <<>> /\ progress' # <<>> =>
              /\ progress'[1].stepIndex >= progress[1].stepIndex
              /\ progress'[1].stepIndex <= progress[1].stepIndex + 1
       /\ step' \in FetchReports /\ progress' # <<>> =>
              /\ progress[1].stepIndex \in {1, 2}
              /\ progress'[1].stepIndex = 2
       /\ step' \in AiReports /\ progress' # <<>> =>
              progress'[1].stepIndex = 3
       /\ step' \in {"StructureSettles", "HighlightSettles"} /\ progress' # progress
              /\ progress' # <<>> =>
              progress[1].stepIndex = 3
       /\ step' = "PdfReady" => progress'[1].stepIndex = 5
      ]_vars

\* the second of two highlight requests has reported at step 3
SecondHighlightReported ==
    /\ step = "HighlightSettles"
    /\ progress # <<>>
    /\ progress[1].stepIndex = 3
    /\ progress[1].fileCurrent = 2
    /\ progress[1].fileTotal = 2

\* C29: single pipeline in flight.  While isLoading is TRUE the form is not
\* there to start a second run and no button calls handleReset: a user
\* event is handled only when no run is in progress, so that progress,
\* pdfBlob, error and repoName are written by the steps of the one run
\* only.
SinglePipeline ==
    [][/\ step' \in {"Submit", "Reset"} => ~isLoading /\ pc = "idle"
       /\ isLoading /\ AtYield => ~FormShown /\ ~ResetShown
       /\ isLoading /\ <<progress, pdfBlob, error, repoName>>' #
                           <<progress, pdfBlob, error, repoName>> =>
              step' \notin {"Submit", "Reset"}
       /\ isLoading <=> pc # "idle"
      ]_vars

\* a run is waiting for requests and offers neither the form nor a reset
RunInFlightUndisturbed ==
    /\ isLoading
    /\ pc = "blobs"
    /\ Cardinality(pending) = 1
    /\ AtYield
    /\ ~FormShown
    /\ ~ResetShown
    /\ TrackerShown

====
